---- MODULE Spec2Model ----
(***************************************************************************)
(* pyfastmem: a password-protected key-value store.  Storage (the vault)   *)
(* derives a Fernet key from a password and a persisted salt;              *)
(* MemoryManager (the index) maps keys to randomly named blob files, each  *)
(* holding the encrypted JSON text of one value.                           *)
(***************************************************************************)
EXTENDS Integers, Sequences, FiniteSets, TLC

\* ---------------------------------------------------------------- bounds
\* number of random blob filenames secrets.token_hex(16) hands out in a run
MaxBlobs == 2

\* ---------------------------------------------------------------- inputs
Keys == {"a", "b"}
SnapshotNames == {"s"}
\* the values secrets.token_bytes(16) may return
Salts == {"salt1", "salt2"}
\* a str holding a lone surrogate: password.encode() raises UnicodeEncodeError
UnencodablePassword == "lone surrogate"
Passwords == {"correct horse", "wrong", UnencodablePassword}

\* Python values and JSON texts share one shape: a type tag, the atoms it
\* holds (as their text) and, for a dict / object, the keys of the atoms.
Doc(t, items, keys) == [type |-> t, items |-> items, keys |-> keys]
DictKey(t, text) == [type |-> t, text |-> text]

PyNone == Doc("NoneType", <<>>, <<>>)
PyTrue == Doc("bool", <<"true">>, <<>>)
PyFalse == Doc("bool", <<"false">>, <<>>)
PyBool(b) == IF b THEN PyTrue ELSE PyFalse
PyInt42 == Doc("int", <<"42">>, <<>>)
PyStrGone == Doc("str", <<"gone">>, <<>>)
PyList12 == Doc("list", <<"1", "2">>, <<>>)
PyTuple12 == Doc("tuple", <<"1", "2">>, <<>>)
PySet1 == Doc("set", <<"1">>, <<>>)

\* values passed to set(), defaults passed to get()
Values == {PyInt42, PyList12, PyTuple12, PySet1}
Defaults == {PyNone, PyStrGone}

\* the value domain json.loads can produce: None, bool, int, str, list and
\* dict with str keys
JsonNative(v) ==
    /\ v.type \in {"NoneType", "bool", "int", "str", "list", "dict"}
    /\ \A i \in 1..Len(v.keys) : v.keys[i].type = "str"

\* ---------------------------------------------------------------- results
\* what a call does: returns a value or raises an exception
Return(v) ==
    [kind |-> "return", val |-> v, exc |-> "", msg |-> "", key |-> "", cause |-> ""]
Raise(exc, msg, key, cause) ==
    [kind |-> "raise", val |-> PyNone, exc |-> exc, msg |-> msg, key |-> key, cause |-> cause]

MemoryIsLocked == Raise("RuntimeError", "Memory is locked", "", "")
StorageIsLocked == Raise("ValueError", "Storage is locked", "", "")
NoPasswordSet == Raise("ValueError", "No password set for this storage", "", "")
InvalidToken == Raise("InvalidToken", "", "", "")
Succeeded(res) == res.kind = "return"

\* ---------------------------------------------------------------- json
Serializable(v) ==
    v.type \in {"NoneType", "bool", "int", "str", "list", "tuple", "dict"}

\* json.dumps: list and tuple both become an array; dict keys become strings
JsonType(t) ==
    CASE t = "NoneType" -> "null"
      [] t = "bool" -> "boolean"
      [] t = "int" -> "number"
      [] t = "str" -> "string"
      [] t \in {"list", "tuple"} -> "array"
      [] t = "dict" -> "object"
      [] OTHER -> "unserializable"

JsonDumps(v) ==
    IF Serializable(v)
    THEN Return(Doc(JsonType(v.type), v.items,
                    [i \in 1..Len(v.keys) |-> DictKey("str", v.keys[i].text)]))
    ELSE Raise("TypeError", "not JSON serializable", "", "")

\* a json.loads that builds a tuple from an array
PyType_ArrayAsTuple(t) ==
    CASE t = "null" -> "NoneType"
      [] t = "boolean" -> "bool"
      [] t = "number" -> "int"
      [] t = "string" -> "str"
      [] t = "array" -> "tuple"
      [] t = "object" -> "dict"
      [] OTHER -> "invalid"

\* json.loads: an array becomes a list, an object a dict with str keys
PyType(t) ==
    CASE t = "null" -> "NoneType"
      [] t = "boolean" -> "bool"
      [] t = "number" -> "int"
      [] t = "string" -> "str"
      [] t = "array" -> "list"
      [] t = "object" -> "dict"
      [] OTHER -> "invalid"

JsonLoads(doc) ==
    IF PyType(doc.type) # "invalid"
    THEN Return(Doc(PyType(doc.type), doc.items, doc.keys))
    ELSE Raise("JSONDecodeError", "", "", "")

\* ---------------------------------------------------------------- state
VARIABLES
    fernet,     \* Storage._fernet: NoKey or the key derived from (password, salt)
    saltFile,   \* <root>/.salt: NoSalt or the salt it holds
    memory,     \* MemoryManager._memory: key -> blob filename
    locked,     \* MemoryManager._locked
    files,      \* <root>/<blob>.dat: blob filename -> Fernet token
    nextBlob,   \* the next filename secrets.token_hex(16) returns
    snapshots   \* <root>/<name>.state: name -> saved state

vars == <<fernet, saltFile, memory, locked, files, nextBlob, snapshots>>

NoSalt == "no .salt file"
NoKey == [password |-> "", salt |-> NoSalt]
EmptyMemory == [k \in {} |-> 0]
EmptyFiles == [b \in {} |-> [fkey |-> NoKey, plain |-> PyNone]]
NoSnapshots == [n \in {} |-> [memory |-> EmptyMemory, locked |-> FALSE]]

\* PBKDF2HMAC(salt).derive(password.encode()): the key is a function of both
DeriveKey(password, salt) == [password |-> password, salt |-> salt]
Encodable(password) == password # UnencodablePassword

\* function update that also extends the domain
Put(f, x, y) == [z \in DOMAIN f \cup {x} |-> IF z = x THEN y ELSE f[z]]
Drop(f, xs) == [z \in DOMAIN f \ xs |-> f[z]]
Range(f) == {f[x] : x \in DOMAIN f}

\* ---------------------------------------------------------------- Storage
\* an encrypt without the check that a key is held
Encrypt_NoLockCheck(fk, data) ==
    Return([fkey |-> fk, plain |-> data])

\* Storage.encrypt
Encrypt(fk, data) ==
    IF fk = NoKey THEN StorageIsLocked
    ELSE Return([fkey |-> fk, plain |-> data])

\* a decrypt that does not authenticate the token against the key
Decrypt_NoAuthentication(fk, token) ==
    IF fk = NoKey THEN StorageIsLocked
    ELSE Return(token.plain)

\* Storage.decrypt; the result's val is the decrypted JSON text
Decrypt(fk, token) ==
    IF fk = NoKey THEN StorageIsLocked
    ELSE IF token.fkey # fk THEN InvalidToken
    ELSE Return(token.plain)

\* a _load_salt without the check that the salt file exists
LoadSalt_NoExistsCheck ==
    Return(PyNone)

\* Storage._load_salt
LoadSalt ==
    IF saltFile = NoSalt THEN NoPasswordSet ELSE Return(PyNone)

Init ==
    /\ fernet = NoKey
    /\ saltFile = NoSalt
    /\ memory = EmptyMemory
    /\ locked = FALSE
    /\ files = EmptyFiles
    /\ nextBlob = 1
    /\ snapshots = NoSnapshots

\* Storage.set_password; salt: what secrets.token_bytes(16) returns
SetPasswordResult(password) ==
    IF Encodable(password) THEN Return(PyNone)
    ELSE Raise("UnicodeEncodeError", "", "", "")

SetPassword(password, salt) ==
    /\ IF Succeeded(SetPasswordResult(password))
       THEN /\ fernet' = DeriveKey(password, salt)
            /\ saltFile' = salt
       ELSE UNCHANGED <<fernet, saltFile>>
    /\ UNCHANGED <<memory, locked, files, nextBlob, snapshots>>

\* Storage.unlock
UnlockResult(password) ==
    IF LoadSalt.kind = "raise" THEN Return(PyFalse)
    ELSE IF ~Encodable(password) THEN Return(PyFalse)
    ELSE Return(PyTrue)

StorageUnlock(password) ==
    /\ fernet' = IF UnlockResult(password) = Return(PyTrue)
                 THEN DeriveKey(password, saltFile) ELSE fernet
    /\ UNCHANGED <<saltFile, memory, locked, files, nextBlob, snapshots>>

\* Storage.__init__ followed by MemoryManager.__init__ over the new object,
\* as every command of the front-end does: the disk is kept, the key is not
NewStorage ==
    /\ fernet' = NoKey
    /\ memory' = EmptyMemory
    /\ locked' = FALSE
    /\ UNCHANGED <<saltFile, files, nextBlob, snapshots>>

\* ---------------------------------------------------------------- MemoryManager
\* MemoryManager.__init__ over the storage already in use
NewMemoryManager ==
    /\ memory' = EmptyMemory
    /\ locked' = FALSE
    /\ UNCHANGED <<fernet, saltFile, files, nextBlob, snapshots>>

\* MemoryManager.set; writeOk: whether open(filepath, 'w') succeeds
SetResult(key, value, writeOk) ==
    IF locked THEN MemoryIsLocked
    ELSE IF JsonDumps(value).kind = "raise" THEN JsonDumps(value)
    ELSE IF Encrypt(fernet, JsonDumps(value).val).kind = "raise"
         THEN Encrypt(fernet, JsonDumps(value).val)
    ELSE IF ~writeOk THEN Raise("OSError", "", "", "")
    ELSE Return(PyNone)

\* a set that updates the mapping before it writes the blob file
Set_MapsBeforeWrite(key, value, writeOk) ==
    IF Succeeded(SetResult(key, value, TRUE))
    THEN /\ nextBlob <= MaxBlobs
         /\ nextBlob' = nextBlob + 1
         /\ memory' = Put(memory, key, nextBlob)
         /\ files' = IF writeOk
                     THEN Put(files, nextBlob, Encrypt(fernet, JsonDumps(value).val).val)
                     ELSE files
         /\ UNCHANGED <<fernet, saltFile, locked, snapshots>>
    ELSE UNCHANGED vars

\* a set that names every blob file alike instead of drawing a fresh name
Set_ReusesBlobId(key, value, writeOk) ==
    IF Succeeded(SetResult(key, value, writeOk))
    THEN /\ nextBlob <= MaxBlobs
         /\ nextBlob' = nextBlob + 1
         /\ files' = Put(files, 1, Encrypt(fernet, JsonDumps(value).val).val)
         /\ memory' = Put(memory, key, 1)
         /\ UNCHANGED <<fernet, saltFile, locked, snapshots>>
    ELSE UNCHANGED vars

Set(key, value, writeOk) ==
    IF Succeeded(SetResult(key, value, writeOk))
    THEN /\ nextBlob <= MaxBlobs
         /\ nextBlob' = nextBlob + 1
         /\ files' = Put(files, nextBlob, Encrypt(fernet, JsonDumps(value).val).val)
         /\ memory' = Put(memory, key, nextBlob)
         /\ UNCHANGED <<fernet, saltFile, locked, snapshots>>
    ELSE UNCHANGED vars

\* a get that turns a failed read into the default
GetResult_DefaultOnFailure(mem, fs, fk, key, default) ==
    IF key \notin DOMAIN mem THEN Return(default)
    ELSE IF mem[key] \notin DOMAIN fs THEN Return(default)
    ELSE LET decrypted == Decrypt(fk, fs[mem[key]]) IN
         IF decrypted.kind = "raise" THEN Return(default)
         ELSE LET loaded == JsonLoads(decrypted.val) IN
              IF loaded.kind = "raise" THEN Return(default) ELSE loaded

\* MemoryManager.get, as a function of the index, the disk and the vault key
GetResult(mem, fs, fk, key, default) ==
    IF key \notin DOMAIN mem THEN Return(default)
    ELSE IF mem[key] \notin DOMAIN fs
         THEN Raise("RuntimeError", "Failed to read key", key, "FileNotFoundError")
    ELSE LET decrypted == Decrypt(fk, fs[mem[key]]) IN
         IF decrypted.kind = "raise"
         THEN Raise("RuntimeError", "Failed to read key", key, decrypted.exc)
         ELSE LET loaded == JsonLoads(decrypted.val) IN
              IF loaded.kind = "raise"
              THEN Raise("RuntimeError", "Failed to read key", key, loaded.exc)
              ELSE loaded

\* a get that takes a key whose blob cannot be read out of the mapping
Get_DropsUnreadable(key, default) ==
    /\ memory' = IF GetResult(memory, files, fernet, key, default).kind = "raise"
                 THEN Drop(memory, {key}) ELSE memory
    /\ UNCHANGED <<fernet, saltFile, locked, files, nextBlob, snapshots>>

\* MemoryManager.get changes nothing
Get(key, default) ==
    /\ GetResult(memory, files, fernet, key, default).kind \in {"return", "raise"}
    /\ UNCHANGED vars

\* a delete that reports success without looking at os.remove's outcome
DeleteResult_IgnoresOSError(key) ==
    IF key \in DOMAIN memory THEN Return(PyTrue) ELSE Return(PyFalse)

\* MemoryManager.delete
DeleteResult(key) ==
    IF key \in DOMAIN memory
    THEN IF memory[key] \in DOMAIN files THEN Return(PyTrue) ELSE Return(PyFalse)
    ELSE Return(PyFalse)

\* a delete that removes the file first and keeps the mapping when that fails
Delete_FileFirst(key) ==
    /\ IF key \in DOMAIN memory /\ memory[key] \in DOMAIN files
       THEN /\ memory' = Drop(memory, {key})
            /\ files' = Drop(files, {memory[key]})
       ELSE UNCHANGED <<memory, files>>
    /\ UNCHANGED <<fernet, saltFile, locked, nextBlob, snapshots>>

Delete(key) ==
    /\ IF key \in DOMAIN memory
       THEN /\ memory' = Drop(memory, {key})
            /\ files' = Drop(files, {memory[key]})
       ELSE UNCHANGED <<memory, files>>
    /\ UNCHANGED <<fernet, saltFile, locked, nextBlob, snapshots>>

\* MemoryManager.clear
ClearResult ==
    IF locked THEN MemoryIsLocked ELSE Return(PyNone)

\* a clear that removes the blob files and leaves the mapping
Clear_KeepsMapping ==
    /\ IF Succeeded(ClearResult)
       THEN /\ files' = Drop(files, Range(memory))
            /\ memory' = memory
       ELSE UNCHANGED <<memory, files>>
    /\ UNCHANGED <<fernet, saltFile, locked, nextBlob, snapshots>>

\* a clear that empties the mapping and leaves the blob files
Clear_KeepsFiles ==
    /\ IF Succeeded(ClearResult)
       THEN /\ files' = files
            /\ memory' = EmptyMemory
       ELSE UNCHANGED <<memory, files>>
    /\ UNCHANGED <<fernet, saltFile, locked, nextBlob, snapshots>>

Clear ==
    /\ IF Succeeded(ClearResult)
       THEN /\ files' = Drop(files, Range(memory))
            /\ memory' = EmptyMemory
       ELSE UNCHANGED <<memory, files>>
    /\ UNCHANGED <<fernet, saltFile, locked, nextBlob, snapshots>>

\* MemoryManager.lock
Lock ==
    /\ locked' = TRUE
    /\ UNCHANGED <<fernet, saltFile, memory, files, nextBlob, snapshots>>

\* an unlock that leaves the flag as it is
Unlock_KeepsFlag ==
    UNCHANGED vars

\* MemoryManager.unlock
Unlock ==
    /\ locked' = FALSE
    /\ UNCHANGED <<fernet, saltFile, memory, files, nextBlob, snapshots>>

\* a save that does not look at the flag
SaveResult_NoLockCheck(name) ==
    Return(PyNone)

\* MemoryManager.save
SaveResult(name) ==
    IF locked THEN MemoryIsLocked ELSE Return(PyNone)

Save(name) ==
    /\ IF Succeeded(SaveResult(name))
       THEN snapshots' = Put(snapshots, name, [memory |-> memory, locked |-> locked])
       ELSE UNCHANGED snapshots
    /\ UNCHANGED <<fernet, saltFile, memory, locked, files, nextBlob>>

\* MemoryManager.load
LoadResult(name) ==
    IF locked THEN MemoryIsLocked
    ELSE IF name \notin DOMAIN snapshots
         THEN Raise("ValueError", "No saved state found", name, "FileNotFoundError")
    ELSE Return(PyNone)

\* a load that merges the snapshot into the mapping instead of replacing it
Load_Merges(name) ==
    /\ IF Succeeded(LoadResult(name))
       THEN /\ memory' = [k \in DOMAIN memory \cup DOMAIN snapshots[name].memory |->
                            IF k \in DOMAIN snapshots[name].memory
                            THEN snapshots[name].memory[k] ELSE memory[k]]
            /\ locked' = snapshots[name].locked
       ELSE UNCHANGED <<memory, locked>>
    /\ UNCHANGED <<fernet, saltFile, files, nextBlob, snapshots>>

\* a load that drops the keys of the snapshot whose blob file is missing
Load_DropsMissingBlobs(name) ==
    /\ IF Succeeded(LoadResult(name))
       THEN /\ memory' = [k \in {x \in DOMAIN snapshots[name].memory :
                                    snapshots[name].memory[x] \in DOMAIN files} |->
                            snapshots[name].memory[k]]
            /\ locked' = snapshots[name].locked
       ELSE UNCHANGED <<memory, locked>>
    /\ UNCHANGED <<fernet, saltFile, files, nextBlob, snapshots>>

Load(name) ==
    /\ IF Succeeded(LoadResult(name))
       THEN /\ memory' = snapshots[name].memory
            /\ locked' = snapshots[name].locked
       ELSE UNCHANGED <<memory, locked>>
    /\ UNCHANGED <<fernet, saltFile, files, nextBlob, snapshots>>

\* ---------------------------------------------------------------- front-end
\* the key _unlock_if_needed reads to find out whether the storage is locked
TestKey == "__test_key"

\* _unlock_if_needed prompts when memory.get('__test_key') raises a ValueError
\* whose message holds "Storage is locked"
UnlockIfNeededPrompts ==
    LET res == GetResult(memory, files, fernet, TestKey, PyNone) IN
    /\ res.kind = "raise"
    /\ res.exc = "ValueError"
    /\ res.msg = "Storage is locked"

\* cli._unlock_if_needed; password: what the user types at the prompt.  Any
\* other exception of the get leaves the function, and a failed unlock exits
UnlockIfNeeded(password) ==
    IF UnlockIfNeededPrompts
    THEN StorageUnlock(password)
    ELSE UNCHANGED vars

Next ==
    \/ \E password \in Passwords, salt \in Salts : SetPassword(password, salt)
    \/ \E password \in Passwords : StorageUnlock(password)
    \/ NewStorage
    \/ NewMemoryManager
    \/ \E key \in Keys, value \in Values, writeOk \in BOOLEAN : Set(key, value, writeOk)
    \/ \E key \in Keys, default \in Defaults : Get(key, default)
    \/ \E key \in Keys : Delete(key)
    \/ Clear
    \/ Lock
    \/ Unlock
    \/ \E name \in SnapshotNames : Save(name)
    \/ \E name \in SnapshotNames : Load(name)
    \/ \E password \in Passwords : UnlockIfNeeded(password)

\* ---------------------------------------------------------------- error kinds
\* the error kinds of the specification, in terms of what the code raises
IsLocked(res) == res = MemoryIsLocked \/ res = StorageIsLocked
IsReadFailure(res, key) ==
    /\ res.kind = "raise"
    /\ res.exc = "RuntimeError"
    /\ res.msg = "Failed to read key"
    /\ res.key = key
IsAuthenticationFailed(res) == res.kind = "raise" /\ res.exc = "InvalidToken"
IsNotInitialized(res) == res = NoPasswordSet
IsSnapshotNotFound(res, name) ==
    /\ res.kind = "raise"
    /\ res.exc = "ValueError"
    /\ res.msg = "No saved state found"
    /\ res.key = name

\* get(key, default) on the index as it is after the step
GetResultAfter(key, default) == GetResult(memory', files', fernet', key, default)

\* ---------------------------------------------------------------- claims

\* C1: whenever the lock flag is set, each of set, delete, clear, save and
\* load fails with a Locked error, for every key and snapshot name, and get
\* is not rejected.
C1_LockBlocksMutation ==
    locked =>
        /\ \A key \in Keys, value \in Values, writeOk \in BOOLEAN :
            IsLocked(SetResult(key, value, writeOk))
        /\ \A key \in Keys : IsLocked(DeleteResult(key))
        /\ IsLocked(ClearResult)
        /\ \A name \in SnapshotNames : IsLocked(SaveResult(name)) /\ IsLocked(LoadResult(name))
        /\ \A key \in Keys, default \in Defaults :
            ~IsLocked(GetResult(memory, files, fernet, key, default))

C3_DeleteAlwaysTrueWhenMapped ==
    /\ [](\A key \in Keys : DeleteResult(key) = Return(PyBool(key \in DOMAIN memory)))
    /\ [][memory' # memory =>
            \A key \in DOMAIN memory :
                Delete(key) =>
                    \A default \in Defaults :
                        GetResultAfter(key, default) = Return(default)]_vars

\* C3 (amended): delete(k) returns false for a key that is not mapped; for a
\* mapped key it returns true when the blob file existed and false when the
\* file was already gone, and in both cases get(k, d) then returns d.
C3_DeleteSemantics ==
    /\ [](\A key \in Keys :
            DeleteResult(key) =
                Return(PyBool(key \in DOMAIN memory /\ memory[key] \in DOMAIN files)))
    /\ [][memory' # memory =>
            \A key \in DOMAIN memory :
                Delete(key) =>
                    \A default \in Defaults :
                        GetResultAfter(key, default) = Return(default)]_vars

\* C3 witness: a key the snapshot maps to a blob is no longer mapped and its
\* blob file is gone, while the other key is still mapped to an existing blob
\* (delete has removed the one key and returned true); get returns the default.
C3_Witness ==
    \E name \in DOMAIN snapshots, key \in Keys, other \in DOMAIN memory :
        /\ key \in DOMAIN snapshots[name].memory
        /\ key \notin DOMAIN memory
        /\ snapshots[name].memory[key] \notin DOMAIN files
        /\ other \in DOMAIN snapshots[name].memory
        /\ memory[other] = snapshots[name].memory[other]
        /\ memory[other] \in DOMAIN files
        /\ GetResult(memory, files, fernet, key, PyStrGone) = Return(PyStrGone)

\* what get(key, default) returns on an index holding the mapping that
\* snapshot name records, given the snapshots, the blob files and the vault key
SnapshotView(snaps, fs, fk, name, key, default) ==
    GetResult(snaps[name].memory, fs, fk, key, default)

\* C4: save(s), then a freshly constructed index over the same storage root
\* and vault, then load(s): for every key, get on the new index returns what
\* get on the saving index returned at the time of the save.  In steps: what
\* save records reads as the saving index does; constructing an index changes
\* nothing save recorded or get reads; load makes the index read as recorded.
C4_SnapshotRoundTrip ==
    /\ [][snapshots' # snapshots =>
            \A name \in SnapshotNames :
                (Succeeded(SaveResult(name)) /\ Save(name)) =>
                    \A key \in Keys, default \in Defaults :
                        SnapshotView(snapshots', files', fernet', name, key, default)
                            = GetResult(memory, files, fernet, key, default)]_vars
    /\ [][(memory' # memory \/ locked' # locked) =>
            \A name \in DOMAIN snapshots :
                /\ NewMemoryManager =>
                    /\ memory' = EmptyMemory /\ ~locked'
                    /\ name \in DOMAIN snapshots'
                    /\ \A key \in Keys, default \in Defaults :
                        SnapshotView(snapshots', files', fernet', name, key, default)
                            = SnapshotView(snapshots, files, fernet, name, key, default)
                /\ (Succeeded(LoadResult(name)) /\ Load(name)) =>
                    \A key \in Keys, default \in Defaults :
                        GetResultAfter(key, default)
                            = SnapshotView(snapshots, files, fernet, name, key, default)]_vars

\* C4 witness: the index holds the mapping a snapshot records, with both keys
\* set, and reads a saved key's value, while no blob was written since.
C4_Witness ==
    \E name \in DOMAIN snapshots :
        /\ memory = snapshots[name].memory
        /\ DOMAIN memory = Keys
        /\ \E key \in Keys : GetResult(memory, files, fernet, key, PyNone) = Return(PyInt42)

\* the blob of key exists and was encrypted under another password than the
\* one the vault's key was derived from
SetUnderOtherPassword(key) ==
    /\ key \in DOMAIN memory
    /\ memory[key] \in DOMAIN files
    /\ fernet # NoKey
    /\ files[memory[key]].fkey.password # fernet.password

C6_OverwriteReplacesBlob ==
    [][nextBlob' # nextBlob =>
        \A key \in DOMAIN memory, value \in Values :
            (Succeeded(SetResult(key, value, TRUE)) /\ Set(key, value, TRUE)) =>
                /\ memory'[key] \notin DOMAIN files
                /\ memory'[key] \in DOMAIN files'
                /\ memory[key] \notin DOMAIN files'
                /\ \A blob \in DOMAIN files \cap DOMAIN files' : files'[blob] = files[blob]]_vars

\* C7: get(k, d) returns d without error exactly when k is not mapped; when k
\* is mapped, get returns the value stored in k's blob, or raises the
\* ReadFailure error naming k when the blob is missing, the vault has no key or
\* the token does not decrypt; it never returns d in place of a failed read.
C7_GetDefaultOnlyWhenAbsent ==
    \A key \in Keys, default \in Defaults :
        LET res == GetResult(memory, files, fernet, key, default) IN
        IF key \notin DOMAIN memory
        THEN res = Return(default)
        ELSE IF /\ memory[key] \in DOMAIN files
                /\ fernet # NoKey
                /\ files[memory[key]].fkey = fernet
             THEN res = JsonLoads(files[memory[key]].plain) /\ Succeeded(res)
             ELSE IsReadFailure(res, key)

\* C7 witness: a mapped key whose blob file is gone: get raises the
\* ReadFailure error naming the key.
C7_Witness ==
    \E key \in DOMAIN memory :
        /\ memory[key] \notin DOMAIN files
        /\ IsReadFailure(GetResult(memory, files, fernet, key, PyStrGone), key)

\* C8: after clear() on an unlocked index the mapping is empty, every blob
\* file the mapping referenced is gone (a file that was already missing does
\* not abort the call), and get(k, d) returns d for every key.
C8_ClearEmptiesIndex ==
    [][(~locked /\ Clear) =>
        /\ Succeeded(ClearResult)
        /\ memory' = EmptyMemory
        /\ \A blob \in Range(memory) : blob \notin DOMAIN files'
        /\ \A key \in Keys, default \in Defaults :
            GetResultAfter(key, default) = Return(default)]_vars

\* C8 witness: the mapping is empty and the blobs the snapshot recorded for
\* both keys, one of them still on disk before, are gone after clear.
C8_Witness ==
    \E name \in DOMAIN snapshots :
        /\ memory = EmptyMemory
        /\ ~locked
        /\ DOMAIN snapshots[name].memory = Keys
        /\ \A key \in Keys : snapshots[name].memory[key] \notin DOMAIN files

\* C9 (as claimed): unlock(password) on a storage root without a salt file
\* fails with the NotInitialized error and leaves the vault without a key;
\* when the salt exists it returns true and the vault holds a key, for any
\* password.
C9_UnlockRaisesNotInitialized ==
    /\ [](\A password \in Passwords :
            IF saltFile = NoSalt
            THEN IsNotInitialized(UnlockResult(password)) /\ fernet = NoKey
            ELSE UnlockResult(password) = Return(PyTrue))
    /\ [][fernet' # fernet =>
            \A password \in Passwords : StorageUnlock(password) => fernet' # NoKey]_vars

\* C9 (amended): unlock(password) on a storage root without a salt file
\* returns false, raising nothing (the NotInitialized error of _load_salt is
\* caught inside unlock), and leaves the vault without a key; when the salt
\* exists it returns true and the vault holds the key derived from the
\* password and that salt, for any password that can be encoded as UTF-8, and
\* returns false, the vault unchanged, for one that cannot.
C9_UnlockReturnsFalse ==
    /\ [](\A password \in Passwords :
            IF saltFile = NoSalt
            THEN UnlockResult(password) = Return(PyFalse) /\ fernet = NoKey
            ELSE UnlockResult(password) = Return(PyBool(Encodable(password))))
    /\ [][fernet' # fernet =>
            \A password \in Passwords :
                StorageUnlock(password) =>
                    /\ UnlockResult(password) = Return(PyTrue)
                    /\ fernet' = DeriveKey(password, saltFile)]_vars

\* C9 witness: a storage root without a salt file, on which blobs cannot have
\* been written, and a vault without a key: unlock returns false.
C9_Witness ==
    /\ saltFile = NoSalt
    /\ fernet = NoKey
    /\ \A password \in Passwords : UnlockResult(password) = Return(PyFalse)

\* C10: the vault holds a key iff set_password or a successful unlock has
\* been performed on it: a new vault holds none, only those two calls make it
\* hold one and each does so when it succeeds; while it holds none, encrypt
\* and decrypt fail with Locked (so set raises it and get on an existing blob
\* fails); once it holds a key no operation on it removes the key.
C10_DerivedKeyPresence ==
    /\ [](fernet = NoKey =>
            /\ \A value \in Values :
                Serializable(value) => IsLocked(Encrypt(fernet, JsonDumps(value).val))
            /\ \A blob \in DOMAIN files : IsLocked(Decrypt(fernet, files[blob]))
            /\ \A key \in Keys, value \in Values :
                (~locked /\ Serializable(value))
                    => SetResult(key, value, TRUE) = StorageIsLocked
            /\ \A key \in DOMAIN memory :
                ~Succeeded(GetResult(memory, files, fernet, key, PyNone)))
    /\ [][IF fernet' = NoKey
          THEN fernet = NoKey \/ NewStorage
          ELSE fernet = NoKey =>
                \E password \in Passwords :
                    \/ /\ Succeeded(SetPasswordResult(password))
                       /\ \E salt \in Salts : SetPassword(password, salt)
                    \/ /\ UnlockResult(password) = Return(PyTrue)
                       /\ StorageUnlock(password)]_vars
    /\ [][saltFile' # saltFile => fernet' # NoKey]_vars

\* C10 witness: a vault constructed over a root holding blobs has been
\* unlocked: it holds the key of the salt file and reads a blob written before.
C10_Witness ==
    /\ fernet # NoKey
    /\ fernet = DeriveKey("correct horse", saltFile)
    /\ \E key \in DOMAIN memory :
        Succeeded(GetResult(memory, files, fernet, key, PyNone))

\* C11: a new index starts unlocked; lock() sets the flag and unlock() clears
\* it, from either state; both calls can be made in every state, so from a
\* locked index one unlock() leads to an unlocked one on which no mutating
\* operation is rejected by the flag any more (clear and save succeed).
C11_LockStateMachine ==
    /\ [](/\ ENABLED Lock
          /\ ENABLED Unlock
          /\ locked => ENABLED <<Unlock>>_vars
          /\ ~locked => ENABLED <<Lock>>_vars)
    /\ [][locked' => ~NewMemoryManager /\ ~NewStorage]_vars
    /\ [][locked' # locked =>
            /\ Lock => locked'
            /\ Unlock =>
                /\ ~locked'
                /\ Succeeded(ClearResult')
                /\ \A name \in SnapshotNames :
                    /\ Succeeded(SaveResult(name)')
                    /\ LoadResult(name)' # MemoryIsLocked
                /\ \A key \in Keys, value \in Values, writeOk \in BOOLEAN :
                    SetResult(key, value, writeOk)' # MemoryIsLocked]_vars

\* C11 witness: a locked index holding both keys (lock() has acted), on which
\* clear is rejected and from which unlock() can be taken.
C11_Witness ==
    /\ locked
    /\ DOMAIN memory = Keys
    /\ ClearResult = MemoryIsLocked
    /\ ENABLED <<Unlock>>_vars

\* no blob filename is referenced by two keys of the mapping
Injective(mem) ==
    \A k1 \in DOMAIN mem, k2 \in DOMAIN mem : mem[k1] = mem[k2] => k1 = k2

\* the blob filenames handed out so far whose file has been removed: delete
\* and clear are the only calls that remove a blob file, and they remove the
\* file of a key they take out of the mapping
DeletedBlobs(fs, next) == (1..(next - 1)) \ DOMAIN fs

\* C12 (as claimed): in every reachable state the mapping is injective and
\* references no blob filename whose key was deleted.
C12_InjectiveNeverReferencedAgain ==
    /\ Injective(memory)
    /\ Range(memory) \cap DeletedBlobs(files, nextBlob) = {}

\* C12 (amended): in every reachable state the mapping, and the mapping every
\* snapshot records, is injective; set maps its key to a filename that no
\* file, mapping or snapshot holds yet; and a step that makes the mapping
\* reference a filename whose file was removed is a load of a snapshot that
\* records that reference.
C12_InjectiveFreshIds ==
    /\ [](/\ Injective(memory)
          /\ \A name \in DOMAIN snapshots : Injective(snapshots[name].memory))
    /\ [][nextBlob' # nextBlob =>
            \A key \in DOMAIN memory' :
                (key \in DOMAIN memory => memory[key] # memory'[key])
                    => /\ memory'[key] \notin DOMAIN files
                       /\ memory'[key] \notin Range(memory)
                       /\ \A name \in DOMAIN snapshots :
                            memory'[key] \notin Range(snapshots[name].memory)]_vars
    /\ [][memory' # memory =>
            \A key \in DOMAIN memory' :
                (/\ memory'[key] \in DeletedBlobs(files', nextBlob')
                 /\ key \in DOMAIN memory => memory[key] # memory'[key])
                    => \E name \in DOMAIN snapshots :
                        /\ Load(name)
                        /\ key \in DOMAIN snapshots[name].memory
                        /\ snapshots[name].memory[key] = memory'[key]]_vars

\* C12 witness: the mapping holds both keys under different filenames as a
\* snapshot records them, and the file of one of them has been removed.
C12_Witness ==
    \E name \in DOMAIN snapshots :
        /\ DOMAIN memory = Keys
        /\ memory = snapshots[name].memory
        /\ memory["a"] # memory["b"]
        /\ \E key \in Keys : memory[key] \in DeletedBlobs(files, nextBlob)

\* C13: delete(k) on a mapped key always takes k out of the mapping, the
\* other keys kept, whatever it returns; it returns true iff it removed the
\* blob file, and false, raising nothing, when the file was already gone.
C13_IndexWinsOnDelete ==
    /\ [](\A key \in DOMAIN memory :
            /\ ENABLED <<Delete(key)>>_vars
            /\ DeleteResult(key) \in {Return(PyTrue), Return(PyFalse)}
            /\ memory[key] \notin DOMAIN files => DeleteResult(key) = Return(PyFalse))
    /\ [][memory' # memory =>
            \A key \in DOMAIN memory :
                Delete(key) =>
                    /\ key \notin DOMAIN memory'
                    /\ memory' = Drop(memory, {key})
                    /\ DeleteResult(key) = Return(PyTrue)
                        <=> (memory[key] \in DOMAIN files /\ memory[key] \notin DOMAIN files')
                    /\ \A blob \in DOMAIN files : blob # memory[key] => blob \in DOMAIN files']_vars

\* C13 witness: of the two keys a snapshot records, "a" has been deleted (it
\* is out of the mapping and its file is gone) while "b" is mapped as before.
C13_Witness ==
    \E name \in DOMAIN snapshots :
        /\ DOMAIN snapshots[name].memory = Keys
        /\ DOMAIN memory = {"b"}
        /\ memory["b"] = snapshots[name].memory["b"]
        /\ DeletedBlobs(files, nextBlob) = {snapshots[name].memory["a"]}

\* C14: once the salt file exists, no step replaces its contents by a
\* different salt.
C14_SaltNeverReplaced ==
    [][saltFile # NoSalt => saltFile' = saltFile]_vars

\* C15: a set(k, v) that fails, because the vault holds no key (encrypt
\* raises "Storage is locked"), because the blob file cannot be written, or
\* for any other reason, changes nothing: not the mapping, the flag or a blob
\* file; a set that succeeds maps k to a filename whose file holds the token
\* of v, and leaves the flag, the other keys and the other files as they were.
C15_SetEncryptWriteMap ==
    /\ [](\A key \in Keys, value \in Values, writeOk \in BOOLEAN :
            /\ ~Succeeded(SetResult(key, value, writeOk))
                => ~ENABLED <<Set(key, value, writeOk)>>_vars
            /\ (~locked /\ Serializable(value) /\ fernet = NoKey)
                => SetResult(key, value, writeOk) = StorageIsLocked
            /\ (~locked /\ Serializable(value) /\ fernet # NoKey /\ ~writeOk)
                => SetResult(key, value, writeOk) = Raise("OSError", "", "", ""))
    /\ [][nextBlob' # nextBlob =>
            \A key \in DOMAIN memory', value \in Values :
                (Succeeded(SetResult(key, value, TRUE)) /\ Set(key, value, TRUE)) =>
                    /\ memory'[key] \in DOMAIN files' \ DOMAIN files
                    /\ files'[memory'[key]] = Encrypt(fernet, JsonDumps(value).val).val
                    /\ locked' = locked
                    /\ \A other \in DOMAIN memory' \ {key} :
                        other \in DOMAIN memory /\ memory'[other] = memory[other]
                    /\ \A blob \in DOMAIN files :
                        blob \in DOMAIN files' /\ files'[blob] = files[blob]]_vars

\* C15 witness: an unlocked index that maps a key to an existing blob while
\* the vault holds no key, so that set on that key fails in encrypt.
C15_Witness ==
    /\ fernet = NoKey
    /\ ~locked
    /\ \E key \in DOMAIN memory :
        /\ memory[key] \in DOMAIN files
        /\ SetResult(key, PyInt42, TRUE) = StorageIsLocked
        /\ ~ENABLED <<Set(key, PyInt42, TRUE)>>_vars

\* C16: on an unlocked index, load(name) fails with SnapshotNotFound when no
\* snapshot of that name exists, and then changes nothing; otherwise it
\* succeeds and the mapping and the flag become exactly those that the last
\* save(name) recorded (save records the mapping and flag it is called on),
\* no blob file is touched, and get on a loaded key whose blob file is gone
\* fails with ReadFailure.
C16_LoadReplacesUnvalidated ==
    /\ [](~locked =>
            \A name \in SnapshotNames :
                IF name \in DOMAIN snapshots
                THEN Succeeded(LoadResult(name))
                ELSE /\ IsSnapshotNotFound(LoadResult(name), name)
                     /\ ~ENABLED <<Load(name)>>_vars)
    /\ [][snapshots' # snapshots =>
            \A name \in SnapshotNames :
                Save(name) =>
                    snapshots'[name] = [memory |-> memory, locked |-> locked]]_vars
    /\ [][(memory' # memory \/ locked' # locked) =>
            \A name \in DOMAIN snapshots :
                (~locked /\ Load(name)) =>
                    /\ memory' = snapshots[name].memory
                    /\ locked' = snapshots[name].locked
                    /\ files' = files
                    /\ \A key \in DOMAIN memory', default \in Defaults :
                        memory'[key] \notin DOMAIN files
                            => IsReadFailure(GetResultAfter(key, default), key)]_vars

\* C16 witness: the index holds the mapping a snapshot records although the
\* mapping differs from what the blob files allow: one loaded key's file is
\* gone and get on it fails with ReadFailure, the other key's file exists.
C16_Witness ==
    \E name \in DOMAIN snapshots :
        /\ ~locked
        /\ memory = snapshots[name].memory
        /\ \E key \in DOMAIN memory, other \in DOMAIN memory :
            /\ memory[key] \notin DOMAIN files
            /\ memory[other] \in DOMAIN files
            /\ IsReadFailure(GetResult(memory, files, fernet, key, PyNone), key)

\* C17: whenever the vault holds no key, _unlock_if_needed prompts for the
\* password and, the salt file being there and the password typed being the
\* one that was set, leaves the vault holding a key.
C17_CliUnlocksWhenNoKey ==
    (fernet = NoKey /\ saltFile # NoSalt) =>
        /\ UnlockIfNeededPrompts
        /\ ENABLED <<UnlockIfNeeded("correct horse")>>_vars

\* C18: every snapshot records the flag as false; a load therefore leaves
\* the index unlocked; and the flag changes to true only by lock() and to
\* false only by unlock() or by constructing a new index, so that on one
\* index it is true exactly when the last of its lock() / unlock() calls was
\* lock().
C18_SnapshotsRecordUnlocked ==
    /\ [](\A name \in DOMAIN snapshots : ~snapshots[name].locked)
    /\ [][memory' # memory =>
            \A name \in DOMAIN snapshots : Load(name) => ~locked /\ ~locked']_vars
    /\ [][locked' # locked =>
            IF locked' THEN Lock ELSE Unlock \/ NewMemoryManager \/ NewStorage]_vars
    /\ [][locked' # locked => (Lock => locked') /\ (Unlock => ~locked')]_vars

\* C18 witness: a locked index that holds the mapping of a snapshot, one key
\* of which has lost its file (the snapshot was loaded, then lock() called),
\* while the snapshot records the flag as false.
C18_Witness ==
    \E name \in DOMAIN snapshots :
        /\ locked
        /\ ~snapshots[name].locked
        /\ memory = snapshots[name].memory
        /\ \E key \in DOMAIN memory : memory[key] \notin DOMAIN files

\* C20: while the flag is set, set, clear, save and load are rejected with
\* "Memory is locked" and have no step that changes the mapping, the flag, a
\* blob file or a snapshot; get has no such step in any state.
C20_RejectedCallsChangeNothing ==
    /\ \A key \in Keys, default \in Defaults : ~ENABLED <<Get(key, default)>>_vars
    /\ locked =>
        /\ \A key \in Keys, value \in Values, writeOk \in BOOLEAN :
            /\ SetResult(key, value, writeOk) = MemoryIsLocked
            /\ ~ENABLED <<Set(key, value, writeOk)>>_vars
        /\ ClearResult = MemoryIsLocked
        /\ ~ENABLED <<Clear>>_vars
        /\ \A name \in SnapshotNames :
            /\ SaveResult(name) = MemoryIsLocked
            /\ ~ENABLED <<Save(name)>>_vars
            /\ LoadResult(name) = MemoryIsLocked
            /\ ~ENABLED <<Load(name)>>_vars

\* C20 witness: a locked index on which each rejected call would have had an
\* effect: the vault holds a key and a blob name is left (set), the mapping
\* is not empty (clear) and differs from the snapshot's (save, load).
C20_Witness ==
    \E name \in DOMAIN snapshots :
        /\ locked
        /\ fernet # NoKey
        /\ nextBlob <= MaxBlobs
        /\ memory # EmptyMemory
        /\ memory # snapshots[name].memory

\* the runs of one index on one vault object that never call load: neither
\* object is constructed anew and the storage directory is changed by these
\* calls only
NextSingleIndex ==
    \/ \E password \in Passwords, salt \in Salts : SetPassword(password, salt)
    \/ \E password \in Passwords : StorageUnlock(password)
    \/ \E key \in Keys, value \in Values, writeOk \in BOOLEAN : Set(key, value, writeOk)
    \/ \E key \in Keys, default \in Defaults : Get(key, default)
    \/ \E key \in Keys : Delete(key)
    \/ Clear
    \/ Lock
    \/ Unlock
    \/ \E name \in SnapshotNames : Save(name)

SpecSingleIndex == Init /\ [][NextSingleIndex]_vars

\* C19: in a run of one index without load, every key of the mapping
\* references a blob file that exists, and get on a mapped key whose blob was
\* encrypted under the key the vault holds now returns the stored value.
C19_MappedBlobsExist ==
    \A key \in DOMAIN memory :
        /\ memory[key] \in DOMAIN files
        /\ files[memory[key]].fkey = fernet =>
            \A default \in Defaults :
                /\ Succeeded(GetResult(memory, files, fernet, key, default))
                /\ GetResult(memory, files, fernet, key, default)
                    = JsonLoads(files[memory[key]].plain)

\* C19 witness: after a save and a delete the remaining key is mapped to an
\* existing blob, written under the vault's present key, and get returns 42.
C19_Witness ==
    \E name \in DOMAIN snapshots :
        /\ DOMAIN snapshots[name].memory = Keys
        /\ DOMAIN memory = {"a"}
        /\ memory["a"] \in DOMAIN files
        /\ snapshots[name].memory["b"] \notin DOMAIN files
        /\ files[memory["a"]].fkey = fernet
        /\ GetResult(memory, files, fernet, "a", PyStrGone) = Return(PyInt42)

Spec == Init /\ [][Next]_vars
====
